---- MODULE Spec2Model ----
(***************************************************************************)
(* A model of build_dataset.py: the batch job main() (location resolver,   *)
(* climate fetcher, artifact emitter), the pure helpers c_to_f, mm_to_in   *)
(* and fetch_normals_for_point, and the update() handler of the generated  *)
(* map page.                                                               *)
(*                                                                         *)
(* Numbers are fixed point: degrees Celsius and Fahrenheit in tenths,      *)
(* millimetres in tenths, inches in hundredths.  With inputs of one        *)
(* decimal place neither conversion ever meets a rounding tie, so Python's *)
(* round() is rounding to the nearest value.                               *)
(***************************************************************************)
EXTENDS Integers, Sequences, FiniteSets, TLC

VARIABLES
    \* ---- files on disk
    disk_cities,    \* DATA_CSV: [exists, columns, rows]
    out_csv,        \* OUT_CSV:  [exists, data]
    out_json,       \* OUT_JSON: [exists, data]
    out_html,       \* OUT_HTML: [exists, data]
    \* ---- one run of main()
    pc,             \* "idle" | "geocode" | "loop" | "emit" | "done"
    cities,         \* the DataFrame main() iterates over
    input_table,    \* history: what read_csv returned at line 90
    lats, lons,     \* geocode_cities' accumulators
    i,              \* position of the running loop (1-based row number)
    queries,        \* history: geocoder calls of this run, in order
    records,        \* main()'s list of CSV rows
    json_payload,   \* main()'s list of JSON objects
    fetched,        \* history: fetch_normals_for_point calls of this run
    stdout,         \* lines printed by this run
    \* ---- application of the pure functions
    fn_pc,          \* "ready" | "returned"
    fn_df,          \* the climate source's answer handed to the fetcher
    fn_out,         \* what the fetcher did with it
    \* ---- the map page
    page,           \* "closed" | "open"
    cityData,       \* const cityData of the page's script
    month, minTemp, maxTemp, maxPrcp,   \* the four inputs' values
    markers,        \* the script's markers array
    layers          \* the marker layers on the Leaflet map

fileVars == <<disk_cities, out_csv, out_json, out_html>>
runVars  == <<pc, cities, input_table, lats, lons, i, queries, records,
              json_payload, fetched, stdout>>
fnVars   == <<fn_pc, fn_df, fn_out>>
mapVars  == <<page, cityData, month, minTemp, maxTemp, maxPrcp, markers, layers>>
vars     == <<fileVars, runVars, fnVars, mapVars>>

----------------------------------------------------------------------------
(* Values *)

\* Python's None, and a float NaN, among fixed-point numbers.
None == -999999
NaN  == -999998

MaxCities == 2

COMFORT_MIN_F == 50
COMFORT_MAX_F == 75

MONTHS == <<"Jan", "Feb", "Mar", "Apr", "May", "Jun",
            "Jul", "Aug", "Sep", "Oct", "Nov", "Dec">>

MonthSet == {MONTHS[k] : k \in 1..Len(MONTHS)}

\* round(n / d) for d > 0, to the nearest integer (no ties arise, see above)
RoundDiv(n, d) == (2 * n + d) \div (2 * d)

\* c is None or (isinstance(c, float) and math.isnan(c))
IsNullOrNaN(c) == c = None \/ c = NaN

c_to_f_NoNaNCheck(c) ==
    IF c = None THEN None
    ELSE IF c = NaN THEN NaN
    ELSE RoundDiv(9 * c + 1600, 5)

\* tenths of a degree Celsius -> tenths of a degree Fahrenheit
c_to_f(c) ==
    IF IsNullOrNaN(c) THEN None
    ELSE RoundDiv(9 * c + 1600, 5)

\* tenths of a millimetre -> hundredths of an inch
mm_to_in(mm) ==
    IF IsNullOrNaN(mm) THEN None
    ELSE RoundDiv(50 * mm, 127)

----------------------------------------------------------------------------
(* The climate source *)

SourceColumns == {"tavg", "tmin", "tmax", "prcp", "tsun"}

\* Row labels a DataFrame returned by Normals.fetch() may carry.
IndexChoices == {{}, 1..11, 1..12, 0..11}

TempPool == <<200, 0, 1000, NaN, -178, None, 155>>
PrcpPool == <<508, 0, 254, NaN, 1270, None, 33>>
Seeds == {0, 3}

ColumnOffset(col) ==
    CASE col = "tavg" -> 0
      [] col = "tmin" -> 1
      [] col = "tmax" -> 2
      [] col = "prcp" -> 0
      [] OTHER        -> 4

\* df.loc[k, col] of the frame with the given seed
Cell(seed, k, col) ==
    LET pool == IF col = "prcp" THEN PrcpPool ELSE TempPool
    IN  pool[((seed + k + ColumnOffset(col) + Len(pool) - 1) % Len(pool)) + 1]

\* What normals.fetch() does: raises, returns None, or returns a DataFrame.
Answer(kind, index, columns, seed) ==
    [kind |-> kind, index |-> index, columns |-> columns, seed |-> seed]

RaiseAnswer == Answer("raise", {}, {}, 0)
NoneAnswer  == Answer("none", {}, {}, 0)

Frames(colsets) ==
    {Answer("frame", ix, cs, s) : ix \in IndexChoices, cs \in colsets, s \in Seeds}

AllAnswers == {RaiseAnswer, NoneAnswer} \cup Frames(SUBSET SourceColumns)

\* The answers the runs of main() draw from: a raise, no frame, a frame of
\* every index with all columns, and a 12-row frame without precipitation.
RunAnswers ==
    {RaiseAnswer, NoneAnswer}
        \cup {Answer("frame", ix, SourceColumns, 0) : ix \in IndexChoices}
        \cup {Answer("frame", 1..12, {"tavg", "tmin", "tmax"}, 3)}

\* The answers behind the pages the map is opened on.
PageAnswers ==
    RunAnswers \cup {Answer("frame", 1..12, SourceColumns, 3)}

----------------------------------------------------------------------------
(* fetch_normals_for_point *)

EmptyDict == <<>>

Returned(v) == [raised |-> FALSE, value |-> v]
Raised      == [raised |-> TRUE, value |-> EmptyDict]

UnusableNoLengthCheck(df) ==
    \/ df.kind = "none"
    \/ df.index = {} \/ df.columns = {}

\* df is None or df.empty or len(df.index) < 12
Unusable(df) ==
    \/ df.kind = "none"
    \/ df.index = {} \/ df.columns = {}
    \/ Cardinality(df.index) < 12

\* {MONTHS[i-1]: conv(df.loc[i, col]) if col in df.columns else None
\*  for i in range(1, 13)}
MonthDict(df, col) ==
    [m \in MonthSet |->
        LET k == CHOOSE j \in 1..12 : MONTHS[j] = m
        IN  IF col \in df.columns
            THEN IF col = "prcp" THEN mm_to_in(Cell(df.seed, k, col))
                                 ELSE c_to_f(Cell(df.seed, k, col))
            ELSE None]

\* df.loc[i, col] raises KeyError for a label the index lacks
LocRaises(df) ==
    \E col \in {"tavg", "tmin", "tmax", "prcp"} \cap df.columns :
        \E k \in 1..12 : k \notin df.index

fetch_normals_for_point(df) ==
    IF df.kind = "raise" THEN Raised
    ELSE IF Unusable(df) THEN Returned(EmptyDict)
    ELSE IF LocRaises(df) THEN Raised
    ELSE Returned([tavg_f  |-> MonthDict(df, "tavg"),
                   tmin_f  |-> MonthDict(df, "tmin"),
                   tmax_f  |-> MonthDict(df, "tmax"),
                   prcp_in |-> MonthDict(df, "prcp")])

----------------------------------------------------------------------------
(* Applying the fetcher to every answer of the source *)

IdleRun ==
    /\ pc = "idle" /\ cities = <<>> /\ input_table = <<>>
    /\ lats = <<>> /\ lons = <<>> /\ i = 0 /\ queries = <<>>
    /\ records = <<>> /\ json_payload = <<>> /\ fetched = <<>> /\ stdout = <<>>

NoFile == [exists |-> FALSE, data |-> <<>>]

NoOutputs == out_csv = NoFile /\ out_json = NoFile /\ out_html = NoFile

ClosedPage ==
    /\ page = "closed" /\ cityData = <<>> /\ month = "Jan"
    /\ minTemp = NaN /\ maxTemp = NaN /\ maxPrcp = NaN
    /\ markers = <<>> /\ layers = <<>>

FnUnused == fn_pc = "ready" /\ fn_df = NoneAnswer /\ fn_out = Returned(EmptyDict)

FetchInit ==
    /\ disk_cities = NoFile /\ NoOutputs
    /\ IdleRun /\ ClosedPage
    /\ fn_pc = "ready"
    /\ fn_df \in AllAnswers
    /\ fn_out = Returned(EmptyDict)

\* The call: the source answers fn_df and the fetcher runs on it.
FetchCall ==
    /\ fn_pc = "ready"
    /\ fn_out' = fetch_normals_for_point(fn_df)
    /\ fn_pc' = "returned"
    /\ UNCHANGED <<fn_df, fileVars, runVars, mapVars>>

\* The next call meets another answer of the source.
FetchAgain ==
    /\ fn_pc = "returned"
    /\ fn_df' \in AllAnswers
    /\ fn_out' = Returned(EmptyDict)
    /\ fn_pc' = "ready"
    /\ UNCHANGED <<fileVars, runVars, mapVars>>

FetchNext == FetchCall \/ FetchAgain

FetchSpec == FetchInit /\ [][FetchNext]_vars

----------------------------------------------------------------------------
(* Claims about the fetcher and the conversions (under FetchSpec) *)

NormalsFields == {"tavg_f", "tmin_f", "tmax_f", "prcp_in"}

SourceColumnOf(field) ==
    CASE field = "tavg_f"  -> "tavg"
      [] field = "tmin_f"  -> "tmin"
      [] field = "tmax_f"  -> "tmax"
      [] field = "prcp_in" -> "prcp"

\* C6: fetch_normals_for_point never returns a partial MonthlyNormals: what it
\* returns is the empty result or four mappings, each with exactly the 12
\* month labels as keys; an absent, empty or short (fewer than 12 rows)
\* answer yields the empty result; a missing source column yields a mapping
\* with all 12 keys and every value null.
C6_NoPartialNormals ==
    fn_pc = "returned" =>
        /\ ~fn_out.raised =>
              \/ fn_out.value = EmptyDict
              \/ /\ DOMAIN fn_out.value = NormalsFields
                 /\ \A f \in NormalsFields :
                      /\ DOMAIN fn_out.value[f] = MonthSet
                      /\ SourceColumnOf(f) \notin fn_df.columns
                            => \A m \in MonthSet : fn_out.value[f][m] = None
        /\ ( \/ fn_df.kind = "none"
             \/ /\ fn_df.kind = "frame"
                /\ \/ fn_df.index = {}
                   \/ fn_df.columns = {}
                   \/ Cardinality(fn_df.index) < 12 )
              => fn_out = Returned(EmptyDict)

\* C6 witness: a full result was returned for a frame lacking the prcp column.
C6_Witness ==
    /\ fn_pc = "returned" /\ ~fn_out.raised /\ fn_out.value # EmptyDict
    /\ "prcp" \notin fn_df.columns /\ "tavg" \in fn_df.columns
    /\ \A m \in MonthSet : fn_out.value["prcp_in"][m] = None
    /\ \E m \in MonthSet : fn_out.value["tavg_f"][m] # None

\* C10: c_to_f and mm_to_in preserve nulls and never raise: a None or NaN
\* source value yields None, every other source value yields a number
\* (0 C = 32.0 F, 100 C = 212.0 F, 25.4 mm = 1.00 in, 0 mm = 0.00 in), so a
\* value of a returned result is None exactly when the source value was
\* None/NaN or the source column was missing; the fetcher raises only when
\* the source raises or a month's row label is missing.
C10_NullPreservingConversion ==
    fn_pc = "returned" =>
        /\ (~fn_out.raised /\ fn_out.value # EmptyDict) =>
              \A f \in NormalsFields : \A k \in 1..12 :
                  LET col == SourceColumnOf(f)
                      src == Cell(fn_df.seed, k, col)
                      out == fn_out.value[f][MONTHS[k]]
                  IN  /\ out # NaN
                      /\ (out = None) <=>
                            (col \notin fn_df.columns \/ src = None \/ src = NaN)
                      /\ (col \in fn_df.columns /\ col # "prcp" /\ src = 0)
                            => out = 320
                      /\ (col \in fn_df.columns /\ col # "prcp" /\ src = 1000)
                            => out = 2120
                      /\ (col \in fn_df.columns /\ col = "prcp" /\ src = 254)
                            => out = 100
                      /\ (col \in fn_df.columns /\ col = "prcp" /\ src = 0)
                            => out = 0
        /\ fn_out.raised =>
              \/ fn_df.kind = "raise"
              \/ \E k \in 1..12 : k \notin fn_df.index

\* C10 witness: a returned result converted a NaN, a None and the four
\* reference values.
C10_Witness ==
    /\ fn_pc = "returned" /\ ~fn_out.raised /\ fn_out.value # EmptyDict
    /\ {"tavg", "prcp"} \subseteq fn_df.columns
    /\ \E k \in 1..12 : Cell(fn_df.seed, k, "tavg") = NaN
                         /\ fn_out.value["tavg_f"][MONTHS[k]] = None
    /\ \E k \in 1..12 : Cell(fn_df.seed, k, "prcp") = None
                         /\ fn_out.value["prcp_in"][MONTHS[k]] = None
    /\ \E k \in 1..12 : Cell(fn_df.seed, k, "tavg") = 0
                         /\ fn_out.value["tavg_f"][MONTHS[k]] = 320
    /\ \E k \in 1..12 : Cell(fn_df.seed, k, "tavg") = 1000
                         /\ fn_out.value["tavg_f"][MONTHS[k]] = 2120
    /\ \E k \in 1..12 : Cell(fn_df.seed, k, "prcp") = 254
                         /\ fn_out.value["prcp_in"][MONTHS[k]] = 100
    /\ \E k \in 1..12 : Cell(fn_df.seed, k, "prcp") = 0
                         /\ fn_out.value["prcp_in"][MONTHS[k]] = 0

----------------------------------------------------------------------------
(* Files and their encodings *)

\* An empty CSV field, and JSON's null.
Blank    == -999997
JsonNull == -999996

\* pd.isna
isna(x) == x = None \/ x = NaN

\* DataFrame.to_csv writes a missing value as an empty field ...
csv_cell(v) == IF isna(v) THEN Blank ELSE v

\* ... and read_csv reads an empty field as NaN.
csv_value(c) == IF c = Blank THEN NaN ELSE c

\* json.dump / jinja's tojson write None as null; json.load reads it back.
json_value(v) == IF v = None THEN JsonNull ELSE v
json_parse(j) == IF j = JsonNull THEN None ELSE j

CityNames   == <<"Lisbon", "Springfield", "Oslo", "Lima", "Hanoi", "Quito">>
CountryOf   == <<"Portugal", "Nowhereland", "Norway", "Peru", "Vietnam", "Ecuador">>

\* cities.to_csv(DATA_CSV, index=False)
to_csv_table(df) ==
    [exists  |-> TRUE,
     columns |-> df.columns,
     rows    |-> [k \in 1..Len(df.rows) |->
                    [City    |-> df.rows[k].City,
                     Country |-> df.rows[k].Country,
                     Lat     |-> csv_cell(df.rows[k].Lat),
                     Lon     |-> csv_cell(df.rows[k].Lon)]]]

\* pd.read_csv(DATA_CSV); a row of a table without the column has no value
\* for it, and row.get() then gives None.
read_csv(file) ==
    [columns |-> file.columns,
     rows    |-> [k \in 1..Len(file.rows) |->
                    [City    |-> file.rows[k].City,
                     Country |-> file.rows[k].Country,
                     Lat     |-> IF "Lat" \in file.columns
                                 THEN csv_value(file.rows[k].Lat) ELSE None,
                     Lon     |-> IF "Lon" \in file.columns
                                 THEN csv_value(file.rows[k].Lon) ELSE None]]]

\* The input tables a run may find: up to MaxCities distinct cities, without
\* coordinate columns, with Lat only, or with both, any cell of a present
\* column filled or empty.
ColumnChoices == {{}, {"Lat"}, {"Lat", "Lon"}}

LatCell(k) == 380 + k
LonCell(k) == -(90 + k)

InputTables ==
    UNION { UNION {
        { [exists  |-> TRUE,
           columns |-> cs,
           rows    |-> [k \in 1..n |->
                          [City    |-> CityNames[k],
                           Country |-> CountryOf[k],
                           Lat     |-> IF "Lat" \in cs /\ f[k][1]
                                       THEN LatCell(k) ELSE Blank,
                           Lon     |-> IF "Lon" \in cs /\ f[k][2]
                                       THEN LonCell(k) ELSE Blank]]]
          : f \in [1..n -> (IF "Lat" \in cs THEN BOOLEAN ELSE {FALSE})
                             \X (IF "Lon" \in cs THEN BOOLEAN ELSE {FALSE})] }
        : cs \in ColumnChoices } : n \in 0..MaxCities }

----------------------------------------------------------------------------
(* geocode_cities *)

\* geocode(query): no match (None), or a location <<latitude, longitude>>
NoMatch == <<>>

\* What the geocoder may answer to a query: the full query "City, Country"
\* finds one place or nothing, the city alone finds another place or nothing.
GeoAnswers(query) ==
    IF Len(query) = 2 THEN {NoMatch, <<100, 200>>} ELSE {NoMatch, <<300, 400>>}

RetryAlways(location) == TRUE

\* if not location: try city only
RetryCityOnly(location) == location = NoMatch

\* One iteration of the loop over df.iterrows(): the full query, then the
\* city alone when the first has no match.
GeocodeRow ==
    /\ pc = "geocode"
    /\ i <= Len(cities.rows)
    /\ \E a1 \in GeoAnswers(<<cities.rows[i].City, cities.rows[i].Country>>),
          a2 \in GeoAnswers(<<cities.rows[i].City>>) :
        LET row    == cities.rows[i]
            first  == [row |-> i, query |-> <<row.City, row.Country>>, answer |-> a1]
            second == [row |-> i, query |-> <<row.City>>, answer |-> a2]
            retry  == RetryCityOnly(a1)
            location == IF retry THEN a2 ELSE a1
        IN  /\ queries' = IF retry THEN queries \o <<first, second>>
                                   ELSE Append(queries, first)
            /\ lats' = Append(lats, IF location # NoMatch THEN location[1] ELSE None)
            /\ lons' = Append(lons, IF location # NoMatch THEN location[2] ELSE None)
    /\ i' = i + 1
    /\ UNCHANGED <<pc, cities, input_table, records, json_payload, fetched, stdout>>
    /\ UNCHANGED <<fileVars, fnVars, mapVars>>

\* df['Lat'] = lats; df['Lon'] = lons; return df -- then main() saves the
\* table back and enters the per-city loop.
GeocodeDone ==
    /\ pc = "geocode"
    /\ i > Len(cities.rows)
    /\ LET df == [columns |-> cities.columns \cup {"Lat", "Lon"},
                  rows    |-> [k \in 1..Len(cities.rows) |->
                                 [City    |-> cities.rows[k].City,
                                  Country |-> cities.rows[k].Country,
                                  Lat     |-> lats[k],
                                  Lon     |-> lons[k]]]]
       IN  /\ cities' = df
           /\ disk_cities' = to_csv_table(df)
    /\ stdout' = Append(stdout, [kind |-> "geocoded", row |-> 0])
    /\ pc' = "loop"
    /\ i' = 1
    /\ UNCHANGED <<input_table, lats, lons, queries, records, json_payload, fetched>>
    /\ UNCHANGED <<out_csv, out_json, out_html, fnVars, mapVars>>

NeedsGeocodingBothMissing(df) == "Lat" \notin df.columns /\ "Lon" \notin df.columns

\* if 'Lat' not in cities.columns or 'Lon' not in cities.columns
NeedsGeocoding(df) == "Lat" \notin df.columns \/ "Lon" \notin df.columns

\* main() up to the per-city loop: read the table, decide on geocoding.
StartRun ==
    /\ pc \in {"idle", "done"}
    /\ disk_cities.exists
    /\ LET df == read_csv(disk_cities)
       IN  /\ cities' = df
           /\ input_table' = df
           /\ IF NeedsGeocoding(df)
              THEN /\ pc' = "geocode"
                   /\ stdout' = <<[kind |-> "geocoding", row |-> 0]>>
              ELSE /\ pc' = "loop"
                   /\ stdout' = <<>>
    /\ i' = 1
    /\ lats' = <<>> /\ lons' = <<>> /\ queries' = <<>>
    /\ records' = <<>> /\ json_payload' = <<>> /\ fetched' = <<>>
    /\ UNCHANGED <<fileVars, fnVars, mapVars>>

----------------------------------------------------------------------------
(* The per-city loop of main() *)

\* out_row: City, Country, Lat, Lon and the columns f"{m}_{field}"
OutRow(row, normals) ==
    [City |-> row.City, Country |-> row.Country, Lat |-> row.Lat, Lon |-> row.Lon,
     cols |-> [c \in MonthSet \X NormalsFields |-> normals[c[2]][c[1]]]]

\* the object appended to json_payload
JsonObject(row, normals) ==
    [city |-> row.City, country |-> row.Country, lat |-> row.Lat, lon |-> row.Lon,
     tavg_f  |-> normals["tavg_f"],
     tmin_f  |-> normals["tmin_f"],
     tmax_f  |-> normals["tmax_f"],
     prcp_in |-> normals["prcp_in"]]

NoCoordinatesLatOnly(lat, lon) == isna(lat)

\* if pd.isna(lat) or pd.isna(lon)
NoCoordinates(lat, lon) == isna(lat) \/ isna(lon)

NextPayloadAssigned(payload, row, normals) == <<JsonObject(row, normals)>>

\* json_payload.append({...})
NextPayload(payload, row, normals) == Append(payload, JsonObject(row, normals))

\* print("Skipping ..."); continue
SkipCity ==
    /\ stdout' = Append(stdout, [kind |-> "skip", row |-> i])
    /\ i' = i + 1
    /\ UNCHANGED <<pc, records, json_payload, fetched>>

OnExceptionBreak ==
    /\ stdout' = Append(stdout, [kind |-> "error", row |-> i])
    /\ i' = Len(cities.rows) + 1
    /\ UNCHANGED <<pc, records, json_payload>>

\* except Exception as e: print("Error for ..."); continue
OnException ==
    /\ stdout' = Append(stdout, [kind |-> "error", row |-> i])
    /\ i' = i + 1
    /\ UNCHANGED <<pc, records, json_payload>>

\* if not normals: print("No normals returned ..."); continue
OnNoNormals ==
    /\ stdout' = Append(stdout, [kind |-> "nonormals", row |-> i])
    /\ i' = i + 1
    /\ UNCHANGED <<pc, records, json_payload>>

\* the rest of the try block: build out_row, append to both lists
OnNormals(row, normals) ==
    /\ records' = Append(records, OutRow(row, normals))
    /\ json_payload' = NextPayload(json_payload, row, normals)
    /\ i' = i + 1
    /\ UNCHANGED <<pc, stdout>>

\* One iteration of the loop over cities.iterrows().
ProcessCity ==
    /\ pc = "loop"
    /\ i <= Len(cities.rows)
    /\ LET row == cities.rows[i]
       IN  IF NoCoordinates(row.Lat, row.Lon)
           THEN SkipCity
           ELSE \E df \in RunAnswers :
                  LET r == fetch_normals_for_point(df)
                  IN  /\ fetched' = Append(fetched,
                            [row |-> i, lat |-> row.Lat, lon |-> row.Lon,
                             raised |-> r.raised,
                             empty |-> (r.value = EmptyDict)])
                      /\ IF r.raised THEN OnException
                         ELSE IF r.value = EmptyDict THEN OnNoNormals
                         ELSE OnNormals(row, r.value)
    /\ UNCHANGED <<cities, input_table, lats, lons, queries>>
    /\ UNCHANGED <<fileVars, fnVars, mapVars>>

----------------------------------------------------------------------------
(* The artifact emitter *)

\* pd.DataFrame(records).to_csv(OUT_CSV, index=False): one line per record
csv_rows(recs) ==
    [k \in 1..Len(recs) |->
        [City |-> recs[k].City, Country |-> recs[k].Country,
         Lat |-> csv_cell(recs[k].Lat), Lon |-> csv_cell(recs[k].Lon),
         cols |-> [c \in MonthSet \X NormalsFields |-> csv_cell(recs[k].cols[c])]]]

\* one object of the payload as json.dump writes it
dump_object(o) ==
    [city |-> o.city, country |-> o.country,
     lat |-> json_value(o.lat), lon |-> json_value(o.lon),
     tavg_f  |-> [m \in MonthSet |-> json_value(o.tavg_f[m])],
     tmin_f  |-> [m \in MonthSet |-> json_value(o.tmin_f[m])],
     tmax_f  |-> [m \in MonthSet |-> json_value(o.tmax_f[m])],
     prcp_in |-> [m \in MonthSet |-> json_value(o.prcp_in[m])]]

\* one object of the file as json.load reads it
load_object(o) ==
    [city |-> o.city, country |-> o.country,
     lat |-> json_parse(o.lat), lon |-> json_parse(o.lon),
     tavg_f  |-> [m \in MonthSet |-> json_parse(o.tavg_f[m])],
     tmin_f  |-> [m \in MonthSet |-> json_parse(o.tmin_f[m])],
     tmax_f  |-> [m \in MonthSet |-> json_parse(o.tmax_f[m])],
     prcp_in |-> [m \in MonthSet |-> json_parse(o.prcp_in[m])]]

\* json.dump(json_payload, f)
json_dump(payload) == [k \in 1..Len(payload) |-> dump_object(payload[k])]

\* json.load(f)
json_load(text) == [k \in 1..Len(text) |-> load_object(text[k])]

\* html_template.render(city_data=..., months=MONTHS, comfort_min=..., comfort_max=...)
render(city_data) ==
    [cityData    |-> [k \in 1..Len(city_data) |-> dump_object(city_data[k])],
     months      |-> MONTHS,
     comfort_min |-> COMFORT_MIN_F,
     comfort_max |-> COMFORT_MAX_F]

WriteAppended(old, data) == [exists |-> TRUE, data |-> old.data \o data]

\* open(path, "w") and write: the file holds what this run wrote, nothing else
Write(old, data) == [exists |-> TRUE, data |-> data]

NeverEmpty(recs) == FALSE

\* if not records
NothingCollected(recs) == recs = <<>>

\* main() after the loop: report failure and return, or write the three files.
Emit ==
    /\ pc = "loop"
    /\ i > Len(cities.rows)
    /\ IF NothingCollected(records)
       THEN /\ stdout' = Append(stdout, [kind |-> "nodata", row |-> 0])
            /\ UNCHANGED <<out_csv, out_json, out_html>>
       ELSE /\ out_csv' = Write(out_csv, csv_rows(records))
            /\ out_json' = Write(out_json, json_dump(json_payload))
            /\ out_html' = [exists |-> TRUE,
                            data |-> <<render(json_load(out_json'.data))>>]
            /\ stdout' = Append(stdout, [kind |-> "done", row |-> 0])
    /\ pc' = "done"
    /\ UNCHANGED <<cities, input_table, lats, lons, i, queries, records,
                   json_payload, fetched>>
    /\ UNCHANGED <<disk_cities, fnVars, mapVars>>

----------------------------------------------------------------------------
(* The batch job *)

Init ==
    /\ disk_cities \in InputTables
    /\ NoOutputs
    /\ IdleRun /\ FnUnused /\ ClosedPage

Next == StartRun \/ GeocodeRow \/ GeocodeDone \/ ProcessCity \/ Emit

Spec == Init /\ [][Next]_vars

----------------------------------------------------------------------------
(* Claims about the batch job (under Spec) *)

\* History of this run read off the fetch log: the rows whose fetch returned
\* a non-empty result without raising.
Succeeded == {j \in 1..Len(fetched) : ~fetched[j].raised /\ ~fetched[j].empty}

Last(seq) == seq[Len(seq)]

FileCities(data) == {<<data[k].City, data[k].Country>> : k \in 1..Len(data)}
JsonCities(data) == {<<data[k].city, data[k].country>> : k \in 1..Len(data)}
HtmlCities == UNION {JsonCities(out_html.data[k].cityData) : k \in 1..Len(out_html.data)}

\* C1: after every iteration of the per-city loop len(records) equals
\* len(json_payload) and the number of cities processed successfully, and at
\* the end of a run that writes output the JSON file, the CSV file and the
\* page's embedded data hold that many entries.
C1_CountsAgree ==
    /\ pc \in {"loop", "done"} =>
          /\ Len(records) = Len(json_payload)
          /\ Len(records) = Cardinality(Succeeded)
    /\ (pc = "done" /\ Succeeded # {}) =>
          /\ out_csv.exists /\ out_json.exists /\ out_html.exists
          /\ Len(out_json.data) = Cardinality(Succeeded)
          /\ Len(out_csv.data) = Cardinality(Succeeded)
          /\ Len(out_html.data[1].cityData) = Cardinality(Succeeded)

\* C1 witness: a run of two cities ended with one record, the other city's
\* fetch having raised.
C1_Witness ==
    /\ pc = "done" /\ Len(cities.rows) = 2
    /\ Len(records) = 1 /\ Len(out_json.data) = 1
    /\ \E j \in 1..Len(fetched) : fetched[j].raised

NullRows ==
    {k \in 1..Len(cities.rows) : isna(cities.rows[k].Lat) \/ isna(cities.rows[k].Lon)}

\* C2: for a row whose Lat or Lon is null no climate fetch is issued and the
\* city is in none of the three output files, and the run still writes its
\* output when another city is processed successfully.
C2_NullCoordinatesExcluded ==
    pc \in {"loop", "done"} =>
        /\ \A k \in NullRows :
              LET name == <<cities.rows[k].City, cities.rows[k].Country>>
              IN  /\ \A j \in 1..Len(fetched) : fetched[j].row # k
                  /\ name \notin FileCities(out_csv.data)
                  /\ name \notin JsonCities(out_json.data)
                  /\ name \notin HtmlCities
        /\ (pc = "done" /\ NullRows # {} /\ Succeeded # {}) =>
              /\ out_csv.exists /\ out_json.exists /\ out_html.exists
              /\ JsonCities(out_json.data) =
                    {<<cities.rows[fetched[j].row].City,
                       cities.rows[fetched[j].row].Country>> : j \in Succeeded}
              /\ Last(stdout).kind = "done"

\* C2 witness: a finished run with a row lacking only its Lon, and output
\* written for another city.
C2_Witness ==
    /\ pc = "done" /\ out_json.exists /\ Succeeded # {}
    /\ \E k \in NullRows : ~isna(cities.rows[k].Lat)

OutputFiles == <<out_csv, out_json, out_html>>

\* C3: when no city was processed successfully, main() prints the failure
\* message and returns without writing any of the three output files; they
\* are written only by a run that collected a record.
C3_NoDataNoFiles ==
    [][ /\ (pc = "loop" /\ i > Len(cities.rows) /\ Succeeded = {}) =>
              /\ pc' = "done"
              /\ OutputFiles' = OutputFiles
              /\ Last(stdout').kind = "nodata"
        /\ OutputFiles' # OutputFiles => Succeeded # {}
      ]_vars

\* C3 witness: a run over two cities, one skipped and one failing, returned
\* with the failure message and no output file.
C3_Witness ==
    /\ pc = "done" /\ NoOutputs /\ Last(stdout).kind = "nodata"
    /\ Len(cities.rows) = 2 /\ Len(fetched) = 1 /\ NullRows # {}

ProcessedRows ==
    [k \in 1..Len(cities.rows) |->
        Cardinality({j \in 1..Len(fetched) : fetched[j].row = k})
      + Cardinality({j \in 1..Len(stdout) : stdout[j].kind = "skip" /\ stdout[j].row = k})]

\* C4: a fetch that raises is caught for its city alone: the step leaves
\* records and json_payload as they were, writes no file, and moves the loop
\* to the next row; at the end of the loop every row has been visited once,
\* in input order.
C4_ExceptionIsolated ==
    /\ [][ (Len(fetched') = Len(fetched) + 1 /\ Last(fetched').raised) =>
              /\ records' = records
              /\ json_payload' = json_payload
              /\ OutputFiles' = OutputFiles
              /\ pc' = "loop"
              /\ i' = i + 1
              /\ Last(stdout').kind = "error"
         ]_vars
    /\ [](pc = "done" =>
              /\ \A k \in 1..Len(cities.rows) : ProcessedRows[k] = 1
              /\ \A a, b \in 1..Len(fetched) : a < b => fetched[a].row < fetched[b].row)

\* C4 witness: the first city's fetch raised, the second city was still
\* fetched and gave the run's only record.
C4_Witness ==
    /\ pc = "done" /\ Len(fetched) = 2
    /\ fetched[1].raised
    /\ ~fetched[2].raised /\ ~fetched[2].empty
    /\ Len(records) = 1 /\ records[1].City = cities.rows[2].City

Queried(k) == \E j \in 1..Len(queries) : queries[j].row = k

\* C5 as claimed: once the resolver stage is over, every row of the input
\* table that lacked a coordinate has been queried, whatever the table.
C5_Original ==
    pc = "loop" =>
        \A k \in 1..Len(input_table.rows) :
            (isna(input_table.rows[k].Lat) \/ isna(input_table.rows[k].Lon))
                => Queried(k)

\* C5 amended: the resolver queries every row when the input table lacks a
\* Lat or a Lon column, saving the result back, and queries no row when both
\* columns are present, leaving the table and its null rows as they were.
C5_ColumnLevelResolver ==
    pc = "loop" =>
        IF "Lat" \notin input_table.columns \/ "Lon" \notin input_table.columns
        THEN /\ \A k \in 1..Len(input_table.rows) : Queried(k)
             /\ cities.columns = {"Lat", "Lon"}
             /\ read_csv(disk_cities).columns = {"Lat", "Lon"}
             /\ \A k \in 1..Len(cities.rows) :
                   /\ isna(read_csv(disk_cities).rows[k].Lat) <=> isna(cities.rows[k].Lat)
                   /\ ~isna(cities.rows[k].Lat) =>
                         read_csv(disk_cities).rows[k] = cities.rows[k]
        ELSE /\ queries = <<>>
             /\ cities = input_table
             /\ read_csv(disk_cities) = input_table

\* C5 witness: the stage is over for a table that has both columns and a row
\* without coordinates, and no query was issued.
C5_Witness ==
    /\ pc = "loop" /\ queries = <<>>
    /\ input_table.columns = {"Lat", "Lon"}
    /\ \E k \in 1..Len(input_table.rows) : isna(input_table.rows[k].Lat)

\* C7 as claimed: after any run the three files hold the data of that run
\* and nothing else.
C7_Original ==
    pc = "done" =>
        /\ out_csv.data = csv_rows(records)
        /\ out_json.data = json_dump(json_payload)
        /\ HtmlCities = JsonCities(json_payload)

\* C7 amended: a run that collected at least one record leaves the three
\* files holding exactly that run's records; a run that collected none
\* leaves the files as it found them, stale data included.
C7_RegeneratedWhenCollected ==
    [][ (pc = "loop" /\ pc' = "done") =>
            IF Succeeded # {}
            THEN /\ out_csv' = [exists |-> TRUE, data |-> csv_rows(records)]
                 /\ out_json' = [exists |-> TRUE, data |-> json_dump(json_payload)]
                 /\ out_html' = [exists |-> TRUE,
                                 data |-> <<render(json_payload)>>]
            ELSE OutputFiles' = OutputFiles
      ]_vars

\* C7 witness: a run that collected nothing ended with an earlier run's
\* files still on disk.
C7_Witness ==
    /\ pc = "done" /\ records = <<>> /\ Last(stdout).kind = "nodata"
    /\ out_csv.exists /\ out_json.exists /\ out_html.exists
    /\ Len(out_json.data) >= 1

RowQueries(k) == SelectSeq(queries, LAMBDA q : q.row = k)

\* C9: geocode_cities handles the rows in input order; per row it asks for
\* "City, Country" first and for "City" alone exactly when the first answer
\* was no match, never more than two queries; the row gets the coordinates
\* of the first match, or None for both when neither matched; the result has
\* one Lat/Lon pair per input row, in the same order.
C9_GeocodeOrder ==
    /\ pc = "geocode" =>
          /\ Len(lats) = i - 1 /\ Len(lons) = i - 1
          /\ \A a, b \in 1..Len(queries) : a < b => queries[a].row <= queries[b].row
          /\ \A j \in 1..Len(queries) : queries[j].row < i
          /\ \A k \in 1..(i - 1) :
                LET qs   == RowQueries(k)
                    row  == cities.rows[k]
                IN  /\ Len(qs) \in {1, 2}
                    /\ qs[1].query = <<row.City, row.Country>>
                    /\ (Len(qs) = 2) <=> (qs[1].answer = NoMatch)
                    /\ Len(qs) = 2 => qs[2].query = <<row.City>>
                    /\ IF Last(qs).answer = NoMatch
                       THEN lats[k] = None /\ lons[k] = None
                       ELSE lats[k] = Last(qs).answer[1] /\ lons[k] = Last(qs).answer[2]
    /\ (pc = "loop" /\ queries # <<>>) =>
          /\ Len(cities.rows) = Len(input_table.rows)
          /\ \A k \in 1..Len(cities.rows) :
                /\ cities.rows[k].City = input_table.rows[k].City
                /\ cities.rows[k].Country = input_table.rows[k].Country
                /\ cities.rows[k].Lat = lats[k]
                /\ cities.rows[k].Lon = lons[k]

\* C9 witness: two rows were geocoded with three queries, the first row
\* resolved by the city-only query and the second by the full query.
C9_Witness ==
    /\ pc = "loop" /\ Len(queries) = 3 /\ Len(cities.rows) = 2
    /\ queries[1].answer = NoMatch /\ queries[2].answer # NoMatch
    /\ cities.rows[1].Lat = queries[2].answer[1]
    /\ cities.rows[2].Lat = queries[3].answer[1]

----------------------------------------------------------------------------
(* The map page: the script embedded in comfort_map_dropdown.html *)

\* The popup's text for an unknown precipitation: p ?? "n/a"
NA == -999995

\* parseFloat() of an input's text: a number (temperatures in tenths of a
\* degree, precipitation in hundredths of an inch) or NaN for an empty or
\* unreadable field.
TempInputs == {NaN, 500, 650, 750}
PrcpInputs == {NaN, 150, 500}

\* value="5" of the maxPrcp input
DEFAULT_MAX_PRCP == 5

\* a >= b and a <= b in JavaScript: false when either side is NaN
Geq(a, b) == a # NaN /\ b # NaN /\ a >= b
Leq(a, b) == a # NaN /\ b # NaN /\ a <= b

\* L.marker([c.lat, c.lon]) with its popup
Marker(c, m) ==
    [lat |-> c.lat, lon |-> c.lon,
     popup |-> [city |-> c.city, country |-> c.country, month |-> m,
                avg |-> c.tavg_f[m], min |-> c.tmin_f[m], max |-> c.tmax_f[m],
                precip |-> IF c.prcp_in[m] = JsonNull THEN NA ELSE c.prcp_in[m]]]

\* the body of cityData.forEach: whether city c gets a marker
Passes(c, m, tmin, tmax, maxP) ==
    LET t == c.tavg_f[m]
        p == c.prcp_in[m]
    IN  /\ t # JsonNull
        /\ Geq(t, tmin) /\ Leq(t, tmax)
        /\ (IF p = JsonNull THEN TRUE ELSE Leq(p, maxP))

RECURSIVE NewMarkers(_, _, _, _, _, _)
NewMarkers(data, k, m, tmin, tmax, maxP) ==
    IF k > Len(data) THEN <<>>
    ELSE (IF Passes(data[k], m, tmin, tmax, maxP)
          THEN <<Marker(data[k], m)>> ELSE <<>>)
         \o NewMarkers(data, k + 1, m, tmin, tmax, maxP)

\* map.removeLayer(marker): the layer leaves the map, if it is there
RECURSIVE RemoveLayer(_, _)
RemoveLayer(ls, marker) ==
    IF ls = <<>> THEN <<>>
    ELSE IF Head(ls) = marker THEN Tail(ls)
    ELSE <<Head(ls)>> \o RemoveLayer(Tail(ls), marker)

RECURSIVE RemoveLayers(_, _)
RemoveLayers(ls, ms) ==
    IF ms = <<>> THEN ls
    ELSE RemoveLayers(RemoveLayer(ls, Head(ms)), Tail(ms))

KeepLayers(ls, ms) == ls

\* markers.forEach(marker => map.removeLayer(marker))
ClearMarkers(ls, ms) == RemoveLayers(ls, ms)

\* update(), reading the inputs' values m, tmin, tmax, maxP
update(data, m, tmin, tmax, maxP) ==
    LET new == NewMarkers(data, 1, m, tmin, tmax, maxP)
    IN  /\ markers' = new
        /\ layers' = ClearMarkers(layers, markers) \o new

\* The browser loads the page: the script runs once, update() included.
OpenPage ==
    /\ page = "closed"
    /\ out_html.exists
    /\ LET doc == out_html.data[1]
       IN  /\ cityData' = doc.cityData
           /\ month' = doc.months[1]
           /\ minTemp' = doc.comfort_min * 10
           /\ maxTemp' = doc.comfort_max * 10
           /\ maxPrcp' = DEFAULT_MAX_PRCP * 100
           /\ update(doc.cityData, doc.months[1], doc.comfort_min * 10,
                     doc.comfort_max * 10, DEFAULT_MAX_PRCP * 100)
    /\ page' = "open"
    /\ UNCHANGED <<fileVars, runVars, fnVars>>

\* The month selector's change event: update()
ChangeMonth ==
    /\ page = "open"
    /\ \E m \in MonthSet :
        /\ m # month
        /\ month' = m
        /\ update(cityData, m, minTemp, maxTemp, maxPrcp)
    /\ UNCHANGED <<page, cityData, minTemp, maxTemp, maxPrcp>>
    /\ UNCHANGED <<fileVars, runVars, fnVars>>

\* The user edits a filter input; no handler is attached to these.
EditMinTemp ==
    /\ page = "open"
    /\ minTemp' \in TempInputs
    /\ UNCHANGED <<page, cityData, month, maxTemp, maxPrcp, markers, layers>>
    /\ UNCHANGED <<fileVars, runVars, fnVars>>

EditMaxTemp ==
    /\ page = "open"
    /\ maxTemp' \in TempInputs
    /\ UNCHANGED <<page, cityData, month, minTemp, maxPrcp, markers, layers>>
    /\ UNCHANGED <<fileVars, runVars, fnVars>>

EditMaxPrcp ==
    /\ page = "open"
    /\ maxPrcp' \in PrcpInputs
    /\ UNCHANGED <<page, cityData, month, minTemp, maxTemp, markers, layers>>
    /\ UNCHANGED <<fileVars, runVars, fnVars>>

\* The Apply button's click event: update()
ClickApply ==
    /\ page = "open"
    /\ update(cityData, month, minTemp, maxTemp, maxPrcp)
    /\ UNCHANGED <<page, cityData, month, minTemp, maxTemp, maxPrcp>>
    /\ UNCHANGED <<fileVars, runVars, fnVars>>

\* The non-empty results the fetcher gives for the pages' answers.
PageNormals ==
    {fetch_normals_for_point(df).value : df \in
        {a \in PageAnswers : /\ ~fetch_normals_for_point(a).raised
                             /\ fetch_normals_for_point(a).value # EmptyDict}}

\* The state a successful run of main() leaves on disk: 1..MaxCities
\* resolved cities, each with a result of the fetcher.
MapInit ==
    /\ \E n \in 1..MaxCities : \E res \in [1..n -> PageNormals] :
        LET rows == [k \in 1..n |->
                        [City |-> CityNames[k], Country |-> CountryOf[k],
                         Lat |-> LatCell(k), Lon |-> LonCell(k)]]
            recs == [k \in 1..n |-> OutRow(rows[k], res[k])]
            payload == [k \in 1..n |-> JsonObject(rows[k], res[k])]
        IN  /\ disk_cities = to_csv_table([columns |-> {"Lat", "Lon"}, rows |-> rows])
            /\ out_csv = Write(NoFile, csv_rows(recs))
            /\ out_json = Write(NoFile, json_dump(payload))
            /\ out_html = Write(NoFile, <<render(json_load(json_dump(payload)))>>)
    /\ IdleRun /\ FnUnused /\ ClosedPage

MapNext ==
    OpenPage \/ ChangeMonth \/ EditMinTemp \/ EditMaxTemp \/ EditMaxPrcp \/ ClickApply

MapSpec == MapInit /\ [][MapNext]_vars

----------------------------------------------------------------------------
(* Claim about the map page (under MapSpec) *)

\* The cities the filter inputs admit, stated without update()'s code.
Admitted ==
    {k \in 1..Len(cityData) :
        LET t == cityData[k].tavg_f[month]
            p == cityData[k].prcp_in[month]
        IN  /\ t \notin {JsonNull, NaN}
            /\ minTemp # NaN /\ maxTemp # NaN
            /\ minTemp <= t /\ t <= maxTemp
            /\ (p = JsonNull \/ (p # NaN /\ maxPrcp # NaN /\ p <= maxPrcp))}

MarkersMatchFilter ==
    /\ layers = markers
    /\ Len(layers) = Cardinality(Admitted)
    /\ \A k \in Admitted :
          \E j \in 1..Len(layers) :
              /\ layers[j].popup.city = cityData[k].city
              /\ layers[j].popup.country = cityData[k].country
              /\ layers[j].popup.month = month
              /\ layers[j].lat = cityData[k].lat /\ layers[j].lon = cityData[k].lon

InputValues == <<minTemp, maxTemp, maxPrcp>>

\* C8: after every execution of update() (page load, month change, Apply)
\* the map shows exactly one marker per city whose selected-month average
\* temperature is known and within [min, max] and whose precipitation is
\* unknown or within the cap; markers of earlier filter states are gone.
C8_MarkersMatchFilter ==
    [][ (page' = "open" /\ (page = "closed" \/ InputValues' = InputValues))
            => MarkersMatchFilter'
      ]_vars

\* C8 witness: with the cap field unreadable, a city of unknown precipitation
\* is shown, another city is not, and the map holds just the shown marker.
C8_Witness ==
    /\ page = "open" /\ maxPrcp = NaN /\ month # "Jan"
    /\ MarkersMatchFilter
    /\ Len(cityData) = 2 /\ Len(layers) = 1
    /\ layers[1].popup.precip = NA

====
